---------------------------- MODULE Spec2Model ----------------------------
(***************************************************************************)
(* Model of the analytics query layer of the Sentry customer dashboard.    *)
(*                                                                         *)
(* src/utils/database.py holds one function per query over the single      *)
(* table customer_monthly_metrics; src/app.py calls them and derives the   *)
(* headline figures.  The state is the table (a set of rows, filled by an  *)
(* external ingestion), the value returned by the most recent call, the    *)
(* st.cache_data entries of the loaders and the run of a page script.      *)
(* Each query is an operator from a table to the SET of results the        *)
(* database may return for it: a singleton wherever SQL fixes the result,  *)
(* several results wherever SQL leaves it open (row order among equal      *)
(* sort keys, the row kept by DISTINCT ON without ORDER BY).               *)
(*                                                                         *)
(* Units: money is in cents (a numeric with two decimals), percentages     *)
(* are in hundredths of a percent, so ROUND(x, 2) is a rounding to an      *)
(* integer of that unit.  month_date m is the first day of the m-th month  *)
(* counted from January 2022.                                              *)
(***************************************************************************)
EXTENDS Integers, Sequences, FiniteSets, TLC

VARIABLES table, call, cache, run

vars == <<table, call, cache, run>>

---------------------------------------------------------------------------
(* Bounds of the model *)

NumCustomers == 2
NumMonths == 3
MaxRows == 3
MaxSeriesLen == 4

Customers == 1..NumCustomers
Months == 1..NumMonths

---------------------------------------------------------------------------
(* SQL values *)

\* A nullable number: NULL is the empty tuple, a value v is <<v>>.
Null == <<>>
Some(v) == <<v>>
IsNull(x) == x = <<>>
Val(x) == x[1]
NullAsZero(x) == IF IsNull(x) THEN 0 ELSE Val(x)

\* A nullable text column: NULL is kept apart from the empty string ''.
NullText == "<NULL>"

Cents(dollars) == dollars * 100

\* ROUND(a / b, d) for a >= 0, b > 0, in units of 10^-d given a in those
\* units: PostgreSQL rounds a numeric half away from zero.
RoundDiv(a, b) == (2 * a + b) \div (2 * b)

\* Days in the months of a non-leap year (the data covers 2021-09..2023-09).
MonthLen == <<31, 28, 31, 30, 31, 30, 31, 31, 30, 31, 30, 31>>

\* The day number of the first day of month m (date arithmetic: in
\* PostgreSQL date - date is a number of days).
RECURSIVE DayNumber(_)
DayNumber(m) == IF m <= 1 THEN 0
                ELSE DayNumber(m - 1) + MonthLen[((m - 2) % 12) + 1]

\* The sum of f[x] over the x of S
RECURSIVE SumOver(_, _)
SumOver(S, f) ==
  IF S = {} THEN 0
  ELSE LET x == CHOOSE y \in S : TRUE
       IN f[x] + SumOver(S \ {x}, f)

\* SUM(expr), expr given as the function f on the rows S: NULL when no row
\* has a non-null expr.
SqlSum(S, f) ==
  LET nn == {r \in S : ~IsNull(f[r])}
  IN IF nn = {} THEN Null ELSE Some(SumOver(nn, [r \in nn |-> Val(f[r])]))

\* ROUND(AVG(expr), d): NULL when no row has a non-null expr; scale is the
\* factor from the unit of expr to the unit of the result.
SqlAvgRound(S, f, scale) ==
  LET nn == {r \in S : ~IsNull(f[r])}
  IN IF nn = {} THEN Null
     ELSE Some(RoundDiv(scale * SumOver(nn, [r \in nn |-> Val(f[r])]),
                        Cardinality(nn)))

\* ROUND(100.0 * num / NULLIF(den, 0), 2), in hundredths of a percent.
PctOrNull(num, den) ==
  IF den = 0 THEN Null ELSE Some(RoundDiv(10000 * num, den))

\* Lexicographic order on two-component integer sort keys.
KeyLeq(a, b) == a[1] < b[1] \/ (a[1] = b[1] /\ a[2] <= b[2])

\* ORDER BY: every sequence of the rows of S (records [k, v]) whose keys k
\* are non-decreasing; SQL leaves the order of rows with equal keys open.
RECURSIVE Orderings(_)
Orderings(S) ==
  IF S = {} THEN {<<>>}
  ELSE LET firsts == {e \in S : \A f \in S : KeyLeq(e.k, f.k)}
       IN UNION {{<<e.v>> \o t : t \in Orderings(S \ {e})} : e \in firsts}

\* LIMIT n
Limit(s, n) == IF Len(s) <= n THEN s ELSE SubSeq(s, 1, n)

Range(s) == {s[i] : i \in 1..Len(s)}

---------------------------------------------------------------------------
(* The table customer_monthly_metrics *)

Plans == {"Free", "Trial", "Low", "Middle", "Top"}

\* CASE plan WHEN 'Free' THEN 1 ... WHEN 'Top' THEN 5 END: NULL for any
\* other plan, and ORDER BY ... ASC puts NULL last.
PlanRank(plan) ==
  CASE plan = "Free" -> Some(1)
    [] plan = "Trial" -> Some(2)
    [] plan = "Low" -> Some(3)
    [] plan = "Middle" -> Some(4)
    [] plan = "Top" -> Some(5)
    [] OTHER -> Null

\* The comparison of plan names as text (MIN(plan), MAX(plan)): the
\* alphabetical position Free < Low < Middle < Top < Trial.
AlphaRank(plan) ==
  CASE plan = "Free" -> 1
    [] plan = "Low" -> 2
    [] plan = "Middle" -> 3
    [] plan = "Top" -> 4
    [] plan = "Trial" -> 5

MkRow(c, m, p) ==
  [id |-> c, month_date |-> m, is_active |-> p.is_active, plan |-> p.plan,
   annual_recurring_revenue |-> p.annual_recurring_revenue,
   events_daily |-> p.events_daily,
   events_28d |-> p.events_28d, country |-> p.country,
   account_created_date |-> p.account_created_date,
   first_paid_date |-> p.first_paid_date]

\* A paying, active customer of the Low plan; the profiles of the
\* specifications below vary it field by field.
Typical ==
  [is_active |-> TRUE, plan |-> "Low",
   annual_recurring_revenue |-> Some(Cents(1500)),
   events_daily |-> 2, events_28d |-> 50, country |-> "US",
   account_created_date |-> Some(<<1, 1>>),
   first_paid_date |-> Null]

MonthsOf(T) == {r.month_date : r \in T}
IdsOf(T) == {r.id : r \in T}
RowsOfMonth(T, m) == {r \in T : r.month_date = m}
ActiveRows(T) == {r \in T : r.is_active}

\* SELECT MAX(month_date): NULL on the empty table.
MaxMonth(T) ==
  IF T = {} THEN Null
  ELSE Some(CHOOSE m \in MonthsOf(T) : \A n \in MonthsOf(T) : n <= m)

\* WHERE month_date = (SELECT max_date FROM latest_month): no row when the
\* sub-select is NULL.
LatestRows(T) ==
  IF IsNull(MaxMonth(T)) THEN {} ELSE RowsOfMonth(T, Val(MaxMonth(T)))

Ok(rows) == [status |-> "ok", rows |-> rows]
Failed == [status |-> "error", rows |-> <<>>]

---------------------------------------------------------------------------
(* The queries of src/utils/database.py *)

ArrWhateverStatus(r) == r.annual_recurring_revenue
ArrIfActive(r) == IF r.is_active THEN r.annual_recurring_revenue ELSE Null
ArrIfActiveElseZero(r) ==
  IF r.is_active THEN r.annual_recurring_revenue ELSE Some(0)
EventsIfActive(r) == IF r.is_active THEN Some(r.events_28d) ELSE Null
EventsIfActiveElseZero(r) == IF r.is_active THEN Some(r.events_28d) ELSE Some(0)

MonthlyMetricsRow(T, m) ==
  LET G == RowsOfMonth(T, m)
  IN [month_date |-> m,
      active_customers |-> Cardinality(IdsOf(ActiveRows(G))),
      total_customers |-> Cardinality(IdsOf(G)),
      total_arr |-> SqlSum(G, [r \in G |-> ArrIfActiveElseZero(r)]),
      avg_arr |-> SqlAvgRound(G, [r \in G |-> ArrIfActive(r)], 1),
      total_events_28d |-> SqlSum(G, [r \in G |-> EventsIfActiveElseZero(r)]),
      avg_events_28d |-> SqlAvgRound(G, [r \in G |-> EventsIfActive(r)], 1)]

get_monthly_metrics(T) ==
  {Ok(s) : s \in Orderings({[k |-> <<m, 0>>, v |-> MonthlyMetricsRow(T, m)]
                             : m \in MonthsOf(T)})}

\* The comparison of plan names as text instead of the CASE of ORDER BY
PlanSortAlpha(plan) ==
  IF IsNull(PlanRank(plan)) THEN Cardinality(Plans) + 1 ELSE AlphaRank(plan)

\* ORDER BY month_date, CASE plan ... END: the rank of a plan outside the
\* five tiers is NULL, which sorts after every rank.
PlanSortRank(plan) ==
  IF IsNull(PlanRank(plan)) THEN Cardinality(Plans) + 1 ELSE Val(PlanRank(plan))

\* ORDER BY x DESC: NULL first, then the greatest value.
DescKey(x) == IF IsNull(x) THEN <<0, 0>> ELSE <<1, 0 - Val(x)>>

Arr(r) == r.annual_recurring_revenue

ArrByPlanRow(T, m, plan) ==
  LET G == {r \in ActiveRows(T) : r.month_date = m /\ r.plan = plan}
  IN [month_date |-> m, plan |-> plan,
      customers |-> Cardinality(IdsOf(G)),
      total_arr |-> SqlSum(G, [r \in G |-> Arr(r)]),
      avg_arr |-> SqlAvgRound(G, [r \in G |-> Arr(r)], 1)]

get_arr_by_plan(T) ==
  LET groups == {<<r.month_date, r.plan>> : r \in ActiveRows(T)}
  IN {Ok(s) : s \in Orderings({[k |-> <<g[1], PlanSortRank(g[2])>>,
                                v |-> ArrByPlanRow(T, g[1], g[2])]
                               : g \in groups})}

\* LAG(is_active) OVER (PARTITION BY id ORDER BY month_date): the is_active
\* of the customer's row with the greatest earlier month, NULL ("none")
\* for the customer's first row.
PrevRows(T, r) == {q \in T : q.id = r.id /\ q.month_date < r.month_date}
HasPrev(T, r) == PrevRows(T, r) # {}
EarliestRow(T, r) ==
  CHOOSE q \in PrevRows(T, r) :
    \A q2 \in PrevRows(T, r) : q.month_date <= q2.month_date
PrevRow(T, r) ==
  CHOOSE q \in PrevRows(T, r) :
    \A q2 \in PrevRows(T, r) : q2.month_date <= q.month_date
PrevMonthActive(T, r) == HasPrev(T, r) /\ PrevRow(T, r).is_active

ChurnRow(T, m) ==
  LET G == {r \in RowsOfMonth(T, m) : HasPrev(T, r)}
      prevActive == {r \in G : PrevMonthActive(T, r)}
      churned == {r \in prevActive : ~r.is_active}
  IN [month_date |-> m,
      prev_month_active_count |-> Cardinality(prevActive),
      churned_count |-> Cardinality(churned),
      churn_rate_pct |-> PctOrNull(Cardinality(churned), Cardinality(prevActive))]

get_churn_metrics(T) ==
  LET months == {r.month_date : r \in {q \in T : HasPrev(T, q)}}
  IN {Ok(s) : s \in Orderings({[k |-> <<m, 0>>, v |-> ChurnRow(T, m)]
                               : m \in months})}

\* DISTINCT ON (id) without ORDER BY keeps an unspecified row of each
\* customer: every choice of one row per customer is a possible outcome.
DistinctOnId(S) ==
  {{f[c] : c \in IdsOf(S)} : f \in {g \in [IdsOf(S) -> S] : \A c \in IdsOf(S) : g[c].id = c}}

\* DATE_TRUNC('month', account_created_date)
SignupMonth(r) == Val(r.account_created_date)[1]

NewCustomersRow(F, m) ==
  LET G == {r \in F : SignupMonth(r) = m}
  IN [signup_month |-> m,
      new_customers |-> Cardinality(IdsOf(G)),
      new_paying_customers |->
        Cardinality(IdsOf({r \in G : ~IsNull(r.first_paid_date)}))]

get_new_customers(T) ==
  LET src == {r \in T : ~IsNull(r.account_created_date)}
  IN UNION {{Ok(s) : s \in Orderings({[k |-> <<m, 0>>, v |-> NewCustomersRow(F, m)]
                                      : m \in {SignupMonth(r) : r \in F}})}
            : F \in DistinctOnId(src)}

GeographyRow(G, country) ==
  LET C == {r \in G : r.country = country}
  IN [country |-> country,
      unique_customers |-> Cardinality(IdsOf(C)),
      total_arr |-> SqlSum(C, [r \in C |-> Arr(r)])]

\* WHERE country IS NOT NULL AND country != ''
HasCountryOrEmpty(r) == r.country # NullText
HasCountry(r) == r.country # NullText /\ r.country # ""

get_revenue_by_geography(T) ==
  LET G == {r \in ActiveRows(LatestRows(T)) : HasCountry(r)}
      out == {GeographyRow(G, c) : c \in {r.country : r \in G}}
  IN {Ok(s) : s \in Orderings({[k |-> DescKey(o.total_arr), v |-> o] : o \in out})}

\* customer_journey: MIN(month_date) and MIN(CASE WHEN arr > 0 THEN month_date END)
FirstMonth(T, c) ==
  CHOOSE m \in MonthsOf({r \in T : r.id = c}) :
    \A n \in MonthsOf({r \in T : r.id = c}) : m <= n
MonthsWithArrRecorded(T, c) ==
  {r.month_date : r \in {q \in T : q.id = c /\ ~IsNull(Arr(q))}}
PaidMonths(T, c) ==
  {r.month_date : r \in {q \in T : q.id = c /\ ~IsNull(Arr(q)) /\ Val(Arr(q)) > 0}}
FirstPaidMonth(T, c) ==
  IF PaidMonths(T, c) = {} THEN Null
  ELSE Some(CHOOSE m \in PaidMonths(T, c) : \A n \in PaidMonths(T, c) : m <= n)

\* first_paid_month - first_month: a number of days
DaysToConvert(T, c) ==
  DayNumber(Val(FirstPaidMonth(T, c))) - DayNumber(FirstMonth(T, c))

\* 100.0 * COUNT(first_paid_month) / COUNT(*) has no NULLIF: over no
\* customer the division by zero makes the statement fail.
get_conversion_funnel(T) ==
  LET ids == IdsOf(T)
      conv == {c \in ids : ~IsNull(FirstPaidMonth(T, c))}
  IN IF ids = {} THEN {Failed}
     ELSE {Ok(<<[total_users |-> Cardinality(ids),
                 converted_users |-> Cardinality(conv),
                 conversion_rate_pct |->
                   Some(RoundDiv(10000 * Cardinality(conv), Cardinality(ids))),
                 avg_days_to_convert |->
                   IF conv = {} THEN Null
                   ELSE Some(RoundDiv(10 * SumOver(conv, [c \in conv |-> DaysToConvert(T, c)]),
                                      Cardinality(conv)))]>>)}

\* prev_month: MAX(month_date) WHERE month_date < max_date
PrevMonth(T) ==
  LET earlier == IF IsNull(MaxMonth(T)) THEN {}
                 ELSE {m \in MonthsOf(T) : m < Val(MaxMonth(T))}
  IN IF earlier = {} THEN Null
     ELSE Some(CHOOSE m \in earlier : \A n \in earlier : n <= m)

ActiveRowsAt(T, month) ==
  IF IsNull(month) THEN {} ELSE ActiveRows(RowsOfMonth(T, Val(month)))

get_latest_snapshot(T) ==
  LET latest == ActiveRowsAt(T, MaxMonth(T))
      prev == ActiveRowsAt(T, PrevMonth(T))
  IN {Ok(<<[active_customers |-> Cardinality(IdsOf(latest)),
            total_arr |-> SqlSum(latest, [r \in latest |-> Arr(r)]),
            prev_active_customers |-> Cardinality(IdsOf(prev)),
            prev_arr |-> SqlSum(prev, [r \in prev |-> Arr(r)])]>>)}

\* COUNT(DISTINCT CASE WHEN events_28d > 0 THEN id END)
UsersWithEventsAmongActive(G) == IdsOf({r \in ActiveRows(G) : r.events_28d > 0})
UsersWithEvents(G) == IdsOf({r \in G : r.events_28d > 0})

MauRow(T, m) ==
  LET G == RowsOfMonth(T, m)
      mau == UsersWithEvents(G)
      act == IdsOf(ActiveRows(G))
  IN [month_date |-> m,
      monthly_active_users |-> Cardinality(mau),
      active_customers |-> Cardinality(act),
      engagement_rate |-> PctOrNull(Cardinality(mau), Cardinality(act))]

get_mau_metrics(T) ==
  {Ok(s) : s \in Orderings({[k |-> <<m, 0>>, v |-> MauRow(T, m)]
                             : m \in MonthsOf(T)})}

\* Program constants of the latest-month rankings
TopLimit == 10
LowUsageThreshold == 100
MeaningfulArrDollars == 1000

\* AGE(month m, account_created_date) in whole months: the day of the
\* signup date counts against the first of the month.
FullMonthsSince(m, acd) ==
  LET am == acd[1]
      ad == acd[2]
  IN IF m > am THEN (m - am) - (IF ad > 1 THEN 1 ELSE 0) ELSE m - am

\* ROUND(EXTRACT(YEAR FROM AGE) + EXTRACT(MONTH FROM AGE) / 12.0, 1), in
\* tenths of a year; NULL for a NULL signup date.
YearsAsClient(m, acd) ==
  IF IsNull(acd) THEN Null
  ELSE LET n == FullMonthsSince(m, Val(acd))
       IN IF n < 0 THEN Some(0 - RoundDiv(10 * (0 - n), 12))
          ELSE Some(RoundDiv(10 * n, 12))

\* ROUND(events_28d / 28.0, 1), in tenths
AvgEventsPerDay(r) == RoundDiv(10 * r.events_28d, 28)

HasPositiveArr(r) == ~IsNull(Arr(r)) /\ Val(Arr(r)) > 0

TopCustomerRow(T, r) ==
  [customer_id |-> r.id, total_arr |-> Arr(r),
   years_as_client |-> YearsAsClient(Val(MaxMonth(T)), r.account_created_date),
   plan |-> r.plan]

get_top_customers(T) ==
  LET G == {r \in ActiveRows(LatestRows(T)) : HasPositiveArr(r)}
  IN {Ok(Limit(s, TopLimit))
      : s \in Orderings({[k |-> DescKey(Arr(r)), v |-> TopCustomerRow(T, r)]
                         : r \in G})}

UsageRow(r) ==
  [customer_id |-> r.id, plan |-> r.plan, arr |-> Arr(r),
   total_events |-> r.events_28d, avg_events_per_day |-> AvgEventsPerDay(r)]

get_power_users(T) ==
  LET G == {r \in ActiveRows(LatestRows(T)) : r.events_28d > 0}
  IN {Ok(Limit(s, TopLimit))
      : s \in Orderings({[k |-> DescKey(Some(r.events_28d)), v |-> UsageRow(r)]
                         : r \in G})}

\* WHERE events_28d < 100 AND arr > 1000 over customer_usage
AtRiskLaxArr(r) ==
  r.events_28d < LowUsageThreshold /\ Val(Arr(r)) >= Cents(MeaningfulArrDollars)
AtRisk(r) ==
  r.events_28d < LowUsageThreshold /\ Val(Arr(r)) > Cents(MeaningfulArrDollars)

get_at_risk_accounts(T) ==
  LET customer_usage == {r \in ActiveRows(LatestRows(T)) : HasPositiveArr(r)}
      G == {r \in customer_usage : AtRisk(r)}
  IN {Ok(Limit(s, TopLimit))
      : s \in Orderings({[k |-> DescKey(Arr(r)), v |-> UsageRow(r)] : r \in G})}

\* Program constants of get_potential_referrals
ReferralWindowMonths == 6
ReferralMinAvgEvents == 100

\* MIN / MAX of a text column over rows: NULL when no row has a value.
MinText(names) ==
  IF names = {} THEN NullText
  ELSE CHOOSE n \in names : \A o \in names : AlphaRank(n) <= AlphaRank(o)
MaxText(names) ==
  IF names = {} THEN NullText
  ELSE CHOOSE n \in names : \A o \in names : AlphaRank(o) <= AlphaRank(n)

\* MIN / MAX of a set of integers: NULL over no value.
MinOf(S) == IF S = {} THEN Null ELSE Some(CHOOSE x \in S : \A y \in S : x <= y)
MaxOf(S) == IF S = {} THEN Null ELSE Some(CHOOSE x \in S : \A y \in S : y <= x)

\* customer_plan_history: months_since_joining of a row with a signup date
MonthsSinceJoining(r) ==
  FullMonthsSince(r.month_date, Val(r.account_created_date))

\* first_six_months: WHERE months_since_joining <= 6 over the rows with a
\* signup date
FirstSixMonths(T, c) ==
  {r \in T : /\ r.id = c
             /\ ~IsNull(r.account_created_date)
             /\ MonthsSinceJoining(r) <= ReferralWindowMonths}

RanksIn(W) == {Val(PlanRank(r.plan)) : r \in {q \in W : ~IsNull(PlanRank(q.plan))}}

\* ROUND(AVG(events_28d)::numeric, 0) over a non-empty group
AvgEventsRounded(W) ==
  RoundDiv(SumOver(W, [r \in W |-> r.events_28d]), Cardinality(W))
\* AVG(events_28d) > bound, on the exact average
AvgEventsExceeds(W, bound) ==
  SumOver(W, [r \in W |-> r.events_28d]) > bound * Cardinality(W)

\* MAX(plan): the greatest plan name as text
EndingPlanName(W) == MaxText({r.plan : r \in W} \ {NullText})

\* MIN(CASE WHEN plan_rank = 1 OR plan_rank = 2 THEN plan END)
StartingPlanName(W) ==
  MinText({r.plan : r \in {q \in W : PlanRank(q.plan) \in {Some(1), Some(2)}}})

\* plan_changes: one row per customer of first_six_months
PlanChangesRow(T, c) ==
  LET W == FirstSixMonths(T, c)
  IN [id |-> c,
      starting_plan_rank |-> MinOf(RanksIn(W)),
      ending_plan_rank |-> MaxOf(RanksIn(W)),
      starting_plan_name |-> StartingPlanName(W),
      ending_plan_name |-> EndingPlanName(W),
      avg_events_first_6mo |-> AvgEventsRounded(W),
      peak_events_first_6mo |-> Val(MaxOf({r.events_28d : r \in W})),
      months_observed |-> Cardinality(MonthsOf(W)),
      joined_date |-> (CHOOSE r \in W : TRUE).account_created_date]

\* HAVING MAX(plan_rank) > MIN(plan_rank): false over no rank
PlanRankRose(pc) ==
  /\ ~IsNull(pc.starting_plan_rank)
  /\ Val(pc.ending_plan_rank) > Val(pc.starting_plan_rank)

FreeTrialToPaid(pc) ==
  Val(pc.starting_plan_rank) \in {1, 2} /\ Val(pc.ending_plan_rank) >= 3
PaidTierUpgrade(pc) ==
  /\ Val(pc.starting_plan_rank) >= 3
  /\ Val(pc.ending_plan_rank) > Val(pc.starting_plan_rank)

\* CASE ... END as upgrade_type (the arrow of the source text is written
\* "->" here), and the same CASE of ORDER BY
UpgradeType(pc) ==
  IF FreeTrialToPaid(pc) THEN "Free/Trial -> Paid" ELSE "Paid Tier Upgrade"
UpgradeOrder(pc) == IF FreeTrialToPaid(pc) THEN 1 ELSE 2

\* WHERE avg_events_first_6mo > 100 AND (...): the average compared is the
\* rounded column of plan_changes
ReferralKept(T, pc) ==
  /\ pc.avg_events_first_6mo > ReferralMinAvgEvents
  /\ (FreeTrialToPaid(pc) \/ PaidTierUpgrade(pc))

ReferralRow(pc) ==
  [customer_id |-> pc.id,
   starting_plan_name |-> pc.starting_plan_name,
   ending_plan_name |-> pc.ending_plan_name,
   avg_events |-> pc.avg_events_first_6mo,
   peak_events |-> pc.peak_events_first_6mo,
   months_observed |-> pc.months_observed,
   joined_date |-> pc.joined_date,
   upgrade_type |-> UpgradeType(pc)]

get_potential_referrals(T) ==
  LET ids == {c \in IdsOf(T) : FirstSixMonths(T, c) # {}}
      plan_changes == {pc \in {PlanChangesRow(T, c) : c \in ids} : PlanRankRose(pc)}
      kept == {pc \in plan_changes : ReferralKept(T, pc)}
  IN {Ok(s) : s \in Orderings({[k |-> <<UpgradeOrder(pc), 0 - pc.avg_events_first_6mo>>,
                                v |-> ReferralRow(pc)] : pc \in kept})}

\* Program constant of get_new_customers_of_note
NoteWindowMonths == 3

\* recent_months: SELECT DISTINCT month_date ... ORDER BY month_date DESC
\* LIMIT 3
RecentMonthsOfNote(T) ==
  {m \in MonthsOf(T) : Cardinality({n \in MonthsOf(T) : n > m}) < NoteWindowMonths}

\* new_customers: GROUP BY id HAVING MIN(month_date) IN recent_months
NewCustomersOfNote(T) ==
  {c \in IdsOf(T) : FirstMonth(T, c) \in RecentMonthsOfNote(T)}

\* customer_metrics: JOIN ... WHERE c.is_active GROUP BY nc.id,
\* nc.first_seen; MAX(c.plan) is the greatest plan name as text
CurrentPlan(G) == MaxText({r.plan : r \in G} \ {NullText})

CustomerOfNoteRow(T, c) ==
  LET G == {r \in ActiveRows(T) : r.id = c}
      first_seen == FirstMonth(T, c)
  IN [customer_id |-> c,
      total_arr |-> SqlSum(G, [r \in G |-> Arr(r)]),
      years_as_client |->
        YearsAsClient(Val(MaxOf(MonthsOf(G))), Some(<<first_seen, 1>>)),
      plan |-> CurrentPlan(G),
      joined_date |-> first_seen]

get_new_customers_of_note(T) ==
  LET ids == {c \in NewCustomersOfNote(T) : \E r \in ActiveRows(T) : r.id = c}
  IN {Ok(Limit(s, TopLimit))
      : s \in Orderings({[k |-> DescKey(CustomerOfNoteRow(T, c).total_arr),
                          v |-> CustomerOfNoteRow(T, c)] : c \in ids})}

\* Program constants of get_high_opportunity_clients
OpportunityWindowMonths == 6
HighUsageThreshold == 500
OpportunityLimit == 15

\* recent_6_months: SELECT DISTINCT month_date ... ORDER BY month_date DESC
\* LIMIT 6, the months with fewer than 6 later months in the table
RecentMonths(T) ==
  {m \in MonthsOf(T) :
     Cardinality({n \in MonthsOf(T) : n > m}) < OpportunityWindowMonths}

\* high_usage_free: WHERE month in the window AND is_active AND plan IN
\* ('Free', 'Trial') AND events_28d > 0
OnFreeOrTrial(T) ==
  {r \in ActiveRows(T) : /\ r.month_date \in RecentMonths(T)
                         /\ r.plan \in {"Free", "Trial"}
                         /\ r.events_28d > 0}

\* GROUP BY c.id, c.plan, c.account_created_date
OpportunityGroups(S) ==
  {{r \in S : /\ r.id = q.id
              /\ r.plan = q.plan
              /\ r.account_created_date = q.account_created_date} : q \in S}

\* ORDER BY avg_events DESC on the exact average of at most 6 rows: 60 is
\* a multiple of every possible row count
AvgEventsKey(G) ==
  0 - ((60 * SumOver(G, [r \in G |-> r.events_28d])) \div Cardinality(G))

OpportunityRow(G) ==
  LET any == CHOOSE r \in G : TRUE
  IN [customer_id |-> any.id,
      plan |-> any.plan,
      avg_events_28d |-> AvgEventsRounded(G),
      peak_events_28d |-> Val(MaxOf({r.events_28d : r \in G})),
      months_active |-> Cardinality(G),
      joined_date |-> any.account_created_date]

get_high_opportunity_clients(T) ==
  LET high_usage_free == {G \in OpportunityGroups(OnFreeOrTrial(T))
                            : AvgEventsExceeds(G, HighUsageThreshold)}
  IN {Ok(Limit(s, OpportunityLimit))
      : s \in Orderings({[k |-> <<AvgEventsKey(G), 0>>, v |-> OpportunityRow(G)]
                         : G \in high_usage_free})}

\* The plan breakdowns: WHERE is_active ... GROUP BY [month_date,] plan
ActiveOfPlan(T, plan) == {r \in ActiveRows(T) : r.plan = plan}
ActiveOfMonthPlan(T, m, plan) ==
  {r \in ActiveRows(T) : r.month_date = m /\ r.plan = plan}
MonthPlanGroups(T) == {<<r.month_date, r.plan>> : r \in ActiveRows(T)}

PlanDistributionRow(T, m, plan) ==
  [month_date |-> m, plan |-> plan,
   customer_count |-> Cardinality(IdsOf(ActiveOfMonthPlan(T, m, plan)))]

get_plan_distribution(T) ==
  {Ok(s) : s \in Orderings({[k |-> <<g[1], PlanSortRank(g[2])>>,
                             v |-> PlanDistributionRow(T, g[1], g[2])]
                            : g \in MonthPlanGroups(T)})}

UsageTrendRow(T, m, plan) ==
  [month_date |-> m, plan |-> plan,
   avg_events |-> AvgEventsRounded(ActiveOfMonthPlan(T, m, plan))]

get_usage_trends_by_plan(T) ==
  {Ok(s) : s \in Orderings({[k |-> <<g[1], PlanSortRank(g[2])>>,
                             v |-> UsageTrendRow(T, g[1], g[2])]
                            : g \in MonthPlanGroups(T)})}

\* The values f[x] of the rows x of S in ascending order
RECURSIVE SortedValues(_, _)
SortedValues(S, f) ==
  IF S = {} THEN <<>>
  ELSE LET x == CHOOSE y \in S : \A z \in S : f[y] <= f[z]
       IN <<f[x]>> \o SortedValues(S \ {x}, f)

\* ROUND(AVG(expr)::numeric, 0) over a non-empty group
AvgRounded(G, f) == RoundDiv(SumOver(G, f), Cardinality(G))

\* ROUND(PERCENTILE_CONT(0.5) WITHIN GROUP (ORDER BY expr)::numeric, 0):
\* the middle value, or the mean of the two middle values
MedianRounded(G, f) ==
  LET v == SortedValues(G, f)
      n == Len(v)
  IN IF n % 2 = 1 THEN v[(n + 1) \div 2]
     ELSE RoundDiv(v[n \div 2] + v[(n \div 2) + 1], 2)

\* COUNT(CASE WHEN events_28d = 0 THEN 1 END)
InactiveMonths(G) == Cardinality({r \in G : r.events_28d = 0})

\* ROUND(100.0 * COUNT(CASE ...) / COUNT(*), 2) over a non-empty group
PctInactive(G) == RoundDiv(10000 * InactiveMonths(G), Cardinality(G))

UsageByPlanRow(T, plan) ==
  LET G == ActiveOfPlan(T, plan)
  IN [plan |-> plan,
      unique_customers |-> Cardinality(IdsOf(G)),
      customer_months |-> Cardinality(G),
      avg_events_daily |-> AvgRounded(G, [r \in G |-> r.events_daily]),
      median_events_daily |-> MedianRounded(G, [r \in G |-> r.events_daily]),
      avg_events_28d |-> AvgRounded(G, [r \in G |-> r.events_28d]),
      median_events_28d |-> MedianRounded(G, [r \in G |-> r.events_28d]),
      inactive_months |-> InactiveMonths(G),
      pct_inactive |-> PctInactive(G)]

get_usage_by_plan(T) ==
  {Ok(s) : s \in Orderings({[k |-> <<PlanSortRank(plan), 0>>,
                             v |-> UsageByPlanRow(T, plan)]
                            : plan \in {r.plan : r \in ActiveRows(T)}})}

InactiveRateRow(T, plan) ==
  LET G == ActiveOfPlan(LatestRows(T), plan)
  IN [plan |-> plan,
      total_customers |-> Cardinality(G),
      inactive_count |-> InactiveMonths(G),
      pct_inactive |-> PctInactive(G)]

get_inactive_rate_current(T) ==
  {Ok(s) : s \in Orderings({[k |-> <<PlanSortRank(plan), 0>>,
                             v |-> InactiveRateRow(T, plan)]
                            : plan \in {r.plan : r \in ActiveRows(LatestRows(T))}})}

---------------------------------------------------------------------------
(* src/app.py: the KPI cards of the Executive Summary page *)

\* A float quotient a / b * 100 kept exact, as the pair <<100 * a, b>>.
Growth(cur, prev) == <<100 * (cur - prev), prev>>
ZeroGrowth == <<0, 1>>

\* pandas.read_sql turns a NULL of a one-row result into None (a column
\* holding only NULL stays of dtype object).  `prev_arr > 0` with None
\* raises TypeError, and so do `total_arr - prev_arr` and the format
\* f"${total_arr:,.0f}" with total_arr None.
executive_summary_kpis(T) ==
  LET snapshot == (CHOOSE res \in get_latest_snapshot(T) : TRUE).rows[1]
      active_customers == snapshot.active_customers
      prev_active == snapshot.prev_active_customers
      customer_growth == IF prev_active > 0
                         THEN Growth(active_customers, prev_active)
                         ELSE ZeroGrowth
  IN IF IsNull(snapshot.prev_arr) \/ IsNull(snapshot.total_arr) THEN {Failed}
     ELSE LET total_arr == Val(snapshot.total_arr)
              prev_arr == Val(snapshot.prev_arr)
          IN {Ok(<<[active_customers |-> active_customers,
                    total_arr |-> total_arr,
                    customer_growth |-> customer_growth,
                    arr_growth |-> IF prev_arr > 0
                                   THEN Growth(total_arr, prev_arr)
                                   ELSE ZeroGrowth]>>)}

\* Program constants of the Total ARR Trend chart
MaWindow == 3
MaMinPeriods == 1

\* Series.rolling(window=3, min_periods=1).mean(): pandas slides over the
\* series keeping the sum and the number of non-NaN observations of the
\* window, adding the entering value and removing the leaving one.  A
\* mean is kept exact, as the pair <<sum, observations>>; NaN is NULL.
Observed(x) == IF IsNull(x) THEN [sum |-> 0, nobs |-> 0]
               ELSE [sum |-> Val(x), nobs |-> 1]

RECURSIVE ExpandingState(_, _)
ExpandingState(s, i) ==
  IF i = 0 THEN [sum |-> 0, nobs |-> 0]
  ELSE LET before == ExpandingState(s, i - 1)
       IN [sum |-> before.sum + Observed(s[i]).sum,
           nobs |-> before.nobs + Observed(s[i]).nobs]

RECURSIVE RollingState(_, _)
RollingState(s, i) ==
  IF i = 0 THEN [sum |-> 0, nobs |-> 0]
  ELSE LET before == RollingState(s, i - 1)
           entering == Observed(s[i])
           leaving == IF i > MaWindow THEN Observed(s[i - MaWindow])
                      ELSE Observed(Null)
       IN [sum |-> before.sum + entering.sum - leaving.sum,
           nobs |-> before.nobs + entering.nobs - leaving.nobs]

RollingMean(s, i) ==
  LET w == RollingState(s, i)
  IN IF w.nobs >= MaMinPeriods THEN Some(<<w.sum, w.nobs>>) ELSE Null

\* monthly_metrics_ma: the frame with the column arr_3mo_ma added
arr_trend(frame) ==
  LET series == [i \in 1..Len(frame) |-> frame[i].total_arr]
  IN {Ok([i \in 1..Len(frame) |->
            [month_date |-> frame[i].month_date,
             total_arr |-> frame[i].total_arr,
             arr_3mo_ma |-> RollingMean(series, i)]])}

---------------------------------------------------------------------------
(* Actions *)

\* The loaders the Product Usage page calls, in the order of its script
PageLoaders ==
  <<"usage_by_plan", "usage_trends_by_plan", "power_users", "at_risk_accounts">>

Loaders == Range(PageLoaders)

NoRun == [status |-> "idle", pc |-> 0, failed |-> "none",
          frames |-> [l \in Loaders |-> Null]]

Init ==
  /\ table = {}
  /\ call = [op |-> "none", status |-> "ok", rows |-> <<>>]
  /\ cache = [l \in Loaders |-> Null]
  /\ run = NoRun

Returns(op, results) ==
  /\ \E res \in results :
       call' = [op |-> op, status |-> res.status, rows |-> res.rows]
  /\ UNCHANGED <<table, cache, run>>

\* The external ingestion appends one row; it keeps (id, month_date)
\* unique and account_created_date constant per customer.
Ingest(Profiles) ==
  \E c \in Customers, m \in Months, p \in Profiles :
    /\ Cardinality(table) < MaxRows
    /\ \A r \in table : ~(r.id = c /\ r.month_date = m)
    /\ \A r \in table :
         r.id = c => r.account_created_date = p.account_created_date
    /\ table' = table \cup {MkRow(c, m, p)}
    /\ call' = [op |-> "none", status |-> "ok", rows |-> <<>>]
    /\ UNCHANGED <<cache, run>>

Query_get_monthly_metrics ==
  Returns("get_monthly_metrics", get_monthly_metrics(table))
Query_get_arr_by_plan ==
  Returns("get_arr_by_plan", get_arr_by_plan(table))
Query_get_churn_metrics ==
  Returns("get_churn_metrics", get_churn_metrics(table))
Query_get_new_customers ==
  Returns("get_new_customers", get_new_customers(table))
Query_get_revenue_by_geography ==
  Returns("get_revenue_by_geography", get_revenue_by_geography(table))
Query_get_conversion_funnel ==
  Returns("get_conversion_funnel", get_conversion_funnel(table))
Query_get_latest_snapshot ==
  Returns("get_latest_snapshot", get_latest_snapshot(table))
Query_get_mau_metrics ==
  Returns("get_mau_metrics", get_mau_metrics(table))
Query_get_top_customers ==
  Returns("get_top_customers", get_top_customers(table))
Query_get_power_users ==
  Returns("get_power_users", get_power_users(table))
Query_get_at_risk_accounts ==
  Returns("get_at_risk_accounts", get_at_risk_accounts(table))
Query_get_potential_referrals ==
  Returns("get_potential_referrals", get_potential_referrals(table))
Query_get_high_opportunity_clients ==
  Returns("get_high_opportunity_clients", get_high_opportunity_clients(table))
Query_get_plan_distribution ==
  Returns("get_plan_distribution", get_plan_distribution(table))
Query_get_usage_trends_by_plan ==
  Returns("get_usage_trends_by_plan", get_usage_trends_by_plan(table))
Query_get_usage_by_plan ==
  Returns("get_usage_by_plan", get_usage_by_plan(table))
Query_get_inactive_rate_current ==
  Returns("get_inactive_rate_current", get_inactive_rate_current(table))
Query_get_new_customers_of_note ==
  Returns("get_new_customers_of_note", get_new_customers_of_note(table))
Render_executive_summary_kpis ==
  Returns("executive_summary_kpis", executive_summary_kpis(table))

\* The monthly_metrics frames the chart is drawn from: one row per month,
\* total_arr in dollars or NULL
RECURSIVE SeriesOfLen(_)
SeriesOfLen(n) ==
  IF n = 0 THEN {<<>>}
  ELSE {Append(f, [month_date |-> n, total_arr |-> a])
          : f \in SeriesOfLen(n - 1), a \in {Null, Some(10), Some(20), Some(30), Some(40)}}

Render_arr_trend ==
  \E n \in 1..MaxSeriesLen : \E frame \in SeriesOfLen(n) :
    Returns("arr_trend", arr_trend(frame))

\* The query behind a loader
LoaderQuery(l, T) ==
  CASE l = "usage_by_plan" -> get_usage_by_plan(T)
    [] l = "usage_trends_by_plan" -> get_usage_trends_by_plan(T)
    [] l = "power_users" -> get_power_users(T)
    [] l = "at_risk_accounts" -> get_at_risk_accounts(T)

\* The loaders whose query starts from latest_month (SELECT MAX(month_date))
LatestScoped == {"power_users", "at_risk_accounts"}

\* The frame a loader returns, with the month its query took as the latest
LoaderFrames(l, T) ==
  {[rows |-> res.rows,
    latest |-> IF l \in LatestScoped THEN MaxMonth(T) ELSE Null]
     : res \in LoaderQuery(l, T)}

\* The user opens the page (or Streamlit reruns the script): a new run,
\* once the one before has ended
StartPage ==
  /\ run.status # "running"
  /\ run' = [status |-> "running", pc |-> 1, failed |-> "none",
             frames |-> [l \in Loaders |-> Null]]
  /\ UNCHANGED <<table, call, cache>>

\* The script calls its next loader and st.cache_data has an entry for it
LoadFromCache ==
  /\ run.status = "running"
  /\ run.pc <= Len(PageLoaders)
  /\ LET l == PageLoaders[run.pc]
     IN /\ ~IsNull(cache[l])
        /\ run' = [run EXCEPT !.pc = @ + 1, !.frames[l] = cache[l]]
  /\ UNCHANGED <<table, call, cache>>

\* The script calls its next loader without a cache entry: the query runs
\* on the table as it is now, on a connection of its own, and the frame
\* is cached
LoadFromDatabase ==
  /\ run.status = "running"
  /\ run.pc <= Len(PageLoaders)
  /\ LET l == PageLoaders[run.pc]
     IN /\ IsNull(cache[l])
        /\ \E f \in LoaderFrames(l, table) :
             /\ cache' = [cache EXCEPT ![l] = Some(f)]
             /\ run' = [run EXCEPT !.pc = @ + 1, !.frames[l] = Some(f)]
  /\ UNCHANGED <<table, call>>

\* The connection or the statement fails (data-store error, timeout):
\* query_to_dataframe raises, no caller catches, the script run ends
LoadFails ==
  /\ run.status = "running"
  /\ run.pc <= Len(PageLoaders)
  /\ IsNull(cache[PageLoaders[run.pc]])
  /\ run' = [run EXCEPT !.status = "crashed", !.failed = PageLoaders[run.pc]]
  /\ UNCHANGED <<table, call, cache>>

\* All frames are loaded: the sections of the page are rendered
RenderPage ==
  /\ run.status = "running"
  /\ run.pc > Len(PageLoaders)
  /\ run' = [run EXCEPT !.status = "done"]
  /\ UNCHANGED <<table, call, cache>>

\* ttl=600: the entry of a loader is dropped ten minutes after its fill
CacheExpires ==
  \E l \in Loaders :
    /\ ~IsNull(cache[l])
    /\ cache' = [cache EXCEPT ![l] = Null]
    /\ UNCHANGED <<table, call, run>>

---------------------------------------------------------------------------
(* Specifications: one per group of queries, each with the rows that      *)
(* exercise the columns those queries read                                *)

Inactive(p) == [p EXCEPT !.is_active = FALSE]
WithArr(p, a) == [p EXCEPT !.annual_recurring_revenue = a]
WithEvents(p, e) == [p EXCEPT !.events_28d = e]
WithPlan(p, plan) == [p EXCEPT !.plan = plan]
WithCountry(p, c) == [p EXCEPT !.country = c]
WithFirstPaid(p, d) == [p EXCEPT !.first_paid_date = d]

\* Every query, over customers that differ in status, revenue and the
\* recorded first payment.
Profiles ==
  {Typical,
   Inactive(Typical),
   WithFirstPaid(Typical, Some(2)),
   WithPlan(WithArr(Typical, Null), "Free")}

IngestAny == Ingest(Profiles)

Next ==
  \/ IngestAny
  \/ Query_get_monthly_metrics
  \/ Query_get_arr_by_plan
  \/ Query_get_churn_metrics
  \/ Query_get_new_customers
  \/ Query_get_revenue_by_geography
  \/ Query_get_conversion_funnel
  \/ Query_get_latest_snapshot
  \/ Query_get_mau_metrics
  \/ Query_get_top_customers
  \/ Query_get_power_users
  \/ Query_get_at_risk_accounts
  \/ Render_executive_summary_kpis

Spec == Init /\ [][Next]_vars

\* Revenue per month and per plan
RevenueProfiles ==
  {Typical,
   Inactive(Typical),
   WithPlan(WithArr(WithEvents(Typical, 0), Null), "Free"),
   WithPlan(Typical, NullText)}

IngestRevenue == Ingest(RevenueProfiles)

NextRevenue ==
  \/ IngestRevenue
  \/ Query_get_monthly_metrics
  \/ Query_get_arr_by_plan

SpecRevenue == Init /\ [][NextRevenue]_vars

\* Churn: only the status of a customer-month matters
ChurnProfiles == {Typical, Inactive(Typical)}

IngestChurn == Ingest(ChurnProfiles)

NextChurn == IngestChurn \/ Query_get_churn_metrics

SpecChurn == Init /\ [][NextChurn]_vars

\* At-risk accounts: revenue and usage on both sides of the thresholds
RiskProfiles ==
  {Typical,
   WithArr(Typical, Some(Cents(2000))),
   WithArr(Typical, Some(Cents(1000))),
   WithEvents(Typical, 100),
   Inactive(Typical)}

IngestRisk == Ingest(RiskProfiles)

NextRisk == IngestRisk \/ Query_get_at_risk_accounts

SpecRisk == Init /\ [][NextRisk]_vars

\* Geography: present, empty and missing countries
GeoProfiles ==
  {Typical,
   WithCountry(Typical, "DE"),
   WithCountry(Typical, ""),
   WithCountry(Typical, NullText),
   Inactive(Typical)}

IngestGeo == Ingest(GeoProfiles)

NextGeo == IngestGeo \/ Query_get_revenue_by_geography

SpecGeo == Init /\ [][NextGeo]_vars

\* Conversion funnel: months paid, unpaid (0) and without revenue (NULL)
FunnelProfiles ==
  {Typical, WithArr(Typical, Some(0)), WithArr(Typical, Null)}

IngestFunnel == Ingest(FunnelProfiles)

NextFunnel == IngestFunnel \/ Query_get_conversion_funnel

SpecFunnel == Init /\ [][NextFunnel]_vars

\* Headline KPIs: the latest month and the one before
SnapshotProfiles ==
  {Typical,
   WithArr(Typical, Some(Cents(2000))),
   WithArr(Typical, Some(0)),
   Inactive(Typical)}

IngestSnapshot == Ingest(SnapshotProfiles)

NextSnapshot ==
  \/ IngestSnapshot
  \/ Query_get_latest_snapshot
  \/ Render_executive_summary_kpis

SpecSnapshot == Init /\ [][NextSnapshot]_vars

\* Monthly active users: usage and status vary independently
MauProfiles ==
  {Typical,
   WithEvents(Typical, 0),
   Inactive(Typical),
   Inactive(WithEvents(Typical, 0))}

IngestMau == Ingest(MauProfiles)

NextMau == IngestMau \/ Query_get_mau_metrics

SpecMau == Init /\ [][NextMau]_vars

WithSignup(p, d) == [p EXCEPT !.account_created_date = d]

\* Potential referrals: plans below and above the paid threshold, usage on
\* both sides of the engagement threshold, and a customer who signed up
\* long enough ago for the last month to fall out of the window
EarlySignup == Some(<<-4, 1>>)

ReferralProfiles ==
  {WithPlan(WithEvents(Typical, e), plan)
     : e \in {100, 101}, plan \in {"Free", "Trial", "Low", "Top"}}
  \cup {WithSignup(WithPlan(WithEvents(Typical, 101), plan), EarlySignup)
          : plan \in {"Free", "Low"}}

IngestReferral == Ingest(ReferralProfiles)

NextReferral ==
  \/ IngestReferral
  \/ Query_get_potential_referrals
  \/ Query_get_new_customers_of_note

SpecReferral == Init /\ [][NextReferral]_vars

\* High-opportunity clients: Free, Trial and paid months with usage on both
\* sides of the threshold
OpportunityProfiles ==
  {WithPlan(WithEvents(Typical, e), plan)
     : e \in {500, 502}, plan \in {"Free", "Trial", "Low"}}
  \cup {Inactive(WithPlan(WithEvents(Typical, 502), "Free")),
        WithPlan(WithEvents(Typical, 0), "Free")}

IngestOpportunity == Ingest(OpportunityProfiles)

NextOpportunity == IngestOpportunity \/ Query_get_high_opportunity_clients

SpecOpportunity == Init /\ [][NextOpportunity]_vars

\* Customer acquisition: two signup months, a missing signup date, and a
\* first payment recorded from some month on
AcquisitionProfiles ==
  {Typical,
   WithFirstPaid(Typical, Some(2)),
   WithSignup(Typical, Some(<<2, 15>>)),
   WithSignup(WithFirstPaid(Typical, Some(3)), Some(<<2, 15>>)),
   WithSignup(Typical, Null)}

IngestAcquisition == Ingest(AcquisitionProfiles)

NextAcquisition == IngestAcquisition \/ Query_get_new_customers

SpecAcquisition == Init /\ [][NextAcquisition]_vars

\* The moving average of the Total ARR Trend chart, on every frame
NextTrend == Render_arr_trend

SpecTrend == Init /\ [][NextTrend]_vars

\* Plan breakdowns: two plans whose tier order differs from the
\* alphabetical one, and an inactive customer-month of a third plan
PlanProfiles ==
  {Typical,
   WithPlan(WithEvents(Typical, 0), "Trial"),
   Inactive(WithPlan(Typical, "Top"))}

IngestPlans == Ingest(PlanProfiles)

NextPlans ==
  \/ IngestPlans
  \/ Query_get_arr_by_plan
  \/ Query_get_plan_distribution
  \/ Query_get_usage_trends_by_plan
  \/ Query_get_usage_by_plan
  \/ Query_get_inactive_rate_current

SpecPlans == Init /\ [][NextPlans]_vars

\* One page load after the other of the Product Usage page, while the
\* ingestion appends rows and cache entries expire
PageProfiles == {Typical}

IngestPage == Ingest(PageProfiles)

NextPage ==
  \/ IngestPage
  \/ StartPage
  \/ LoadFromCache
  \/ LoadFromDatabase
  \/ LoadFails
  \/ RenderPage
  \/ CacheExpires

SpecPage == Init /\ [][NextPage]_vars

\* The headline figures next to the monthly series they summarise
IngestHeadline == Ingest(SnapshotProfiles)

NextHeadline ==
  \/ IngestHeadline
  \/ Query_get_latest_snapshot
  \/ Query_get_monthly_metrics

SpecHeadline == Init /\ [][NextHeadline]_vars

---------------------------------------------------------------------------
(* Properties *)

Abs(x) == IF x < 0 THEN 0 - x ELSE x

\* q is num / den rounded to the nearest integer (den > 0)
IsRounded(q, num, den) == 2 * Abs(q * den - num) <= den

Returned(op) == call.op = op /\ call.status = "ok"
OutRows == Range(call.rows)

\* The rows of customer c, and the customer's row of month m
RowsOfCustomer(c) == {r \in table : r.id = c}
LatestMonthRows ==
  {r \in table : \A q \in table : q.month_date <= r.month_date}

QueryOps ==
  {"get_monthly_metrics", "get_arr_by_plan", "get_churn_metrics",
   "get_new_customers", "get_revenue_by_geography", "get_conversion_funnel",
   "get_latest_snapshot", "get_mau_metrics", "get_top_customers",
   "get_power_users", "get_at_risk_accounts"}

\* C1: calling the same query twice against the unchanged table returns
\* the same result (same rows, same values, same order).
C1_SameCallSameResult ==
  [][(call.op \in QueryOps /\ call'.op = call.op /\ table' = table)
       => call' = call]_vars

\* get_new_customers has returned one result and may return another
C1_Witness ==
  /\ Returned("get_new_customers")
  /\ \E res \in get_new_customers(table) : res.rows # call.rows

\* C2: no query fails because data is absent: on every table, the empty
\* one included, each query returns a result, and get_conversion_funnel
\* over no customer returns a row whose conversion_rate_pct is null.
C2_NoFailureOnAbsentData ==
  /\ call.op \in QueryOps => call.status = "ok"
  /\ (call.op = "get_conversion_funnel" /\ table = {})
       => (Len(call.rows) = 1 /\ IsNull(call.rows[1].conversion_rate_pct))

\* The rows get_arr_by_plan returns for month m
PlanRowsOfMonth(m) ==
  {o \in Range((CHOOSE res \in get_arr_by_plan(table) : TRUE).rows)
     : o.month_date = m}
SumOfPlanTotals(R) == SumOver(R, [o \in R |-> NullAsZero(o.total_arr)])

\* the monthly total is a number, the sum of the plan totals, a null
\* plan total counting for 0
SumsCountingNullAsZero(row) ==
  /\ ~IsNull(row.total_arr)
  /\ Val(row.total_arr) = SumOfPlanTotals(PlanRowsOfMonth(row.month_date))

\* the monthly total is the SQL sum of the plan totals (null when every
\* plan total is null), 0 when the month has no plan row
SumsAsSqlSum(row) ==
  LET R == PlanRowsOfMonth(row.month_date)
      known == {o \in R : ~IsNull(o.total_arr)}
  IN IF R = {} THEN row.total_arr = Some(0)
     ELSE IF known = {} THEN IsNull(row.total_arr)
     ELSE row.total_arr = Some(SumOfPlanTotals(known))

\* C3: for every month M of the table, total_arr of get_monthly_metrics
\* equals the sum of total_arr over the get_arr_by_plan rows of M (no row
\* summing to 0), under either way of summing null plan totals.
C3_PlanBreakdownSumsToMonthlyTotal ==
  Returned("get_monthly_metrics") =>
    \/ \A row \in OutRows : SumsCountingNullAsZero(row)
    \/ \A row \in OutRows : SumsAsSqlSum(row)

\* The customers with a row in month m whose previous row (the latest
\* earlier one) was active, and those of them inactive in m
EarlierRows(r) == {q \in RowsOfCustomer(r.id) : q.month_date < r.month_date}
PreviousWasActive(r) ==
  \E q \in EarlierRows(r) :
    /\ q.is_active
    /\ \A q2 \in EarlierRows(r) : q2.month_date <= q.month_date
ExpectedPrevActive(m) ==
  {r.id : r \in {q \in table : q.month_date = m /\ PreviousWasActive(q)}}
ExpectedChurned(m) ==
  {r.id : r \in {q \in table : q.month_date = m /\ PreviousWasActive(q)
                                /\ ~q.is_active}}

\* One customer with exactly the history active, active, inactive
ActiveActiveInactive ==
  /\ Cardinality(table) = 3
  /\ \E c \in Customers : \A r \in table : r.id = c
  /\ \E r \in table :
       /\ ~r.is_active
       /\ \A q \in table \ {r} : q.month_date < r.month_date /\ q.is_active

\* C4: per month, prev_month_active_count counts the customers whose
\* previous row was active and churned_count those of them now inactive
\* (a first row counts in neither; a month with no output row has no such
\* customer); churn_rate_pct is churned / prev_active * 100 to two
\* decimals, null when prev_month_active_count is 0; the history active,
\* active, inactive is counted as churned once, in its last month.
C4_ChurnCounting ==
  Returned("get_churn_metrics") =>
    /\ \A row \in OutRows :
         /\ row.prev_month_active_count =
              Cardinality(ExpectedPrevActive(row.month_date))
         /\ row.churned_count = Cardinality(ExpectedChurned(row.month_date))
         /\ IF row.prev_month_active_count = 0
            THEN IsNull(row.churn_rate_pct)
            ELSE /\ ~IsNull(row.churn_rate_pct)
                 /\ IsRounded(Val(row.churn_rate_pct),
                              10000 * row.churned_count,
                              row.prev_month_active_count)
    /\ \A m \in Months :
         (\A row \in OutRows : row.month_date # m)
           => (ExpectedPrevActive(m) = {} /\ ExpectedChurned(m) = {})
    /\ \A i, j \in 1..Len(call.rows) :
         i < j => call.rows[i].month_date < call.rows[j].month_date
    /\ ActiveActiveInactive =>
         /\ Len(call.rows) = 2
         /\ call.rows[1].churned_count = 0
         /\ call.rows[2].churned_count = 1
         /\ call.rows[2].churn_rate_pct = Some(10000)

C4_Witness ==
  /\ Returned("get_churn_metrics")
  /\ ActiveActiveInactive
  /\ Len(call.rows) = 2

\* The latest-month rows that qualify as at risk
Qualifying ==
  {r \in LatestMonthRows :
     /\ r.is_active
     /\ ~IsNull(r.annual_recurring_revenue)
     /\ Val(r.annual_recurring_revenue) > Cents(1000)
     /\ r.events_28d < 100}

\* C5: get_at_risk_accounts returns only active rows of the most recent
\* month with ARR > 1000 and events_28d < 100 (never ARR = 1000 nor
\* events_28d = 100); when at most 10 customers qualify it returns every
\* one of them, once, in descending ARR order.
C5_AtRiskThresholdsStrict ==
  Returned("get_at_risk_accounts") =>
    /\ \A o \in OutRows :
         /\ \E r \in Qualifying :
              /\ o.customer_id = r.id
              /\ o.arr = r.annual_recurring_revenue
              /\ o.total_events = r.events_28d
              /\ o.plan = r.plan
         /\ Val(o.arr) # Cents(1000)
         /\ o.total_events # 100
    /\ Cardinality(Qualifying) <= 10 =>
         /\ {o.customer_id : o \in OutRows} = {r.id : r \in Qualifying}
         /\ Len(call.rows) = Cardinality(Qualifying)
    /\ \A i, j \in 1..Len(call.rows) :
         i < j => Val(call.rows[i].arr) >= Val(call.rows[j].arr)

C5_Witness ==
  /\ Returned("get_at_risk_accounts")
  /\ \E o \in OutRows : o.arr = Some(Cents(1500)) /\ o.total_events = 50
  /\ \E r \in LatestMonthRows :
       /\ r.is_active
       /\ (r.annual_recurring_revenue = Some(Cents(1000)) \/ r.events_28d = 100)

ActiveLatestCustomers == {r.id : r \in {q \in LatestMonthRows : q.is_active}}

\* C6: get_revenue_by_geography has no row for a null or empty country,
\* and its unique_customers sum to at most the number of active customers
\* of the latest month.
C6_GeographyExcludesMissingCountry ==
  Returned("get_revenue_by_geography") =>
    /\ \A o \in OutRows : o.country # NullText /\ o.country # ""
    /\ \A i, j \in 1..Len(call.rows) :
         i # j => call.rows[i].country # call.rows[j].country
    /\ SumOver(OutRows, [o \in OutRows |-> o.unique_customers])
         <= Cardinality(ActiveLatestCustomers)

C6_Witness ==
  /\ Returned("get_revenue_by_geography")
  /\ Len(call.rows) >= 1
  /\ \E r \in LatestMonthRows :
       r.is_active /\ (r.country = NullText \/ r.country = "")

\* Customers with at least one month of ARR > 0, and the first such month
Converters ==
  {c \in Customers :
     \E r \in RowsOfCustomer(c) :
       ~IsNull(r.annual_recurring_revenue) /\ Val(r.annual_recurring_revenue) > 0}
IsFirstMonth(c, m) ==
  /\ \E r \in RowsOfCustomer(c) : r.month_date = m
  /\ \A r \in RowsOfCustomer(c) : m <= r.month_date
IsFirstPaidMonth(c, m) ==
  /\ \E r \in RowsOfCustomer(c) :
       /\ r.month_date = m
       /\ ~IsNull(r.annual_recurring_revenue)
       /\ Val(r.annual_recurring_revenue) > 0
  /\ \A r \in RowsOfCustomer(c) :
       (~IsNull(r.annual_recurring_revenue) /\ Val(r.annual_recurring_revenue) > 0)
         => m <= r.month_date

\* Days from the first of month a to the first of month b, a <= b
DaysBetweenMonths(a, b) ==
  SumOver(a..(b - 1), [k \in a..(b - 1) |-> MonthLen[((k - 1) % 12) + 1]])
ExpectedDays(c) ==
  LET a == CHOOSE m \in Months : IsFirstMonth(c, m)
      b == CHOOSE m \in Months : IsFirstPaidMonth(c, m)
  IN DaysBetweenMonths(a, b)

\* The only converter was first seen in Jan-2022 and first paid in Mar-2022
JanuaryToMarch ==
  /\ Cardinality(Converters) = 1
  /\ \A c \in Converters : IsFirstMonth(c, 1) /\ IsFirstPaidMonth(c, 3)

\* C7: get_conversion_funnel reports the number of distinct customers,
\* the number of them with a month of ARR > 0, their ratio * 100 to two
\* decimals, and the mean over converters only of first paid month minus
\* first month, to one decimal (null without converter); a customer
\* first seen in Jan-2022 and first paying in Mar-2022 is a converter and
\* contributes 2 months, about 60 days.
C7_ConversionFunnel ==
  (call.op = "get_conversion_funnel" /\ table # {}) =>
    /\ call.status = "ok"
    /\ Len(call.rows) = 1
    /\ LET o == call.rows[1]
       IN /\ o.total_users = Cardinality({r.id : r \in table})
          /\ o.converted_users = Cardinality(Converters)
          /\ ~IsNull(o.conversion_rate_pct)
          /\ IsRounded(Val(o.conversion_rate_pct),
                       10000 * o.converted_users, o.total_users)
          /\ IF Converters = {} THEN IsNull(o.avg_days_to_convert)
             ELSE /\ ~IsNull(o.avg_days_to_convert)
                  /\ IsRounded(Val(o.avg_days_to_convert),
                               10 * SumOver(Converters, [c \in Converters |-> ExpectedDays(c)]),
                               Cardinality(Converters))
          /\ JanuaryToMarch =>
               /\ o.converted_users = 1
               /\ Abs(Val(o.avg_days_to_convert) - 600) <= 20

C7_Witness ==
  /\ Returned("get_conversion_funnel")
  /\ JanuaryToMarch
  /\ call.rows[1].total_users = 2
  /\ call.rows[1].converted_users = 1
  /\ call.rows[1].avg_days_to_convert = Some(590)

\* The prior month (the greatest month before the latest), its active
\* customers and their total ARR
PriorMonthRows ==
  {r \in table :
     /\ \E q \in table : r.month_date < q.month_date
     /\ \A q \in table \ LatestMonthRows : q.month_date <= r.month_date}
PriorActive == {r \in PriorMonthRows : r.is_active}
LatestActive == {r \in LatestMonthRows : r.is_active}
SumOfArr(R) == SumOver(R, [r \in R |-> NullAsZero(r.annual_recurring_revenue)])

\* C8: on the Executive Summary page, whenever the prior-month value
\* (active customers, or total ARR of active rows) is zero, also when the
\* prior month has no active row, the customer growth and the ARR growth
\* are 0, not null and not an error; otherwise growth is
\* (current - prior) / prior * 100.  Stated for the tables that hold a
\* prior month.
C8_GrowthZeroOnZeroDenominator ==
  (call.op = "executive_summary_kpis" /\ PriorMonthRows # {}) =>
    /\ call.status = "ok"
    /\ Len(call.rows) = 1
    /\ LET o == call.rows[1]
           cur == Cardinality({r.id : r \in LatestActive})
           prev == Cardinality({r.id : r \in PriorActive})
           curArr == SumOfArr(LatestActive)
           prevArr == SumOfArr(PriorActive)
       IN /\ o.customer_growth =
               IF prev = 0 THEN <<0, 1>> ELSE <<100 * (cur - prev), prev>>
          /\ o.arr_growth =
               IF prevArr = 0 THEN <<0, 1>>
               ELSE <<100 * (curArr - prevArr), prevArr>>

\* The KPI cards were rendered over a prior month with paying customers
C8_Witness ==
  /\ Returned("executive_summary_kpis")
  /\ call.rows[1].arr_growth[1] # 0

\* C9: get_monthly_metrics returns one row per month of the table, in
\* ascending order, also for a month without active customer: there
\* active_customers = 0, total_customers counts the month's customers, the
\* sums are 0 and the averages null.  Inactive rows add 0 to total_arr and
\* total_events_28d and count in total_customers.
C9_EveryMonthReported ==
  Returned("get_monthly_metrics") =>
    /\ {o.month_date : o \in OutRows} = {r.month_date : r \in table}
    /\ \A i, j \in 1..Len(call.rows) :
         i < j => call.rows[i].month_date < call.rows[j].month_date
    /\ \A o \in OutRows :
         LET G == {r \in table : r.month_date = o.month_date}
             A == {r \in G : r.is_active}
         IN /\ o.total_customers = Cardinality({r.id : r \in G})
            /\ o.active_customers = Cardinality({r.id : r \in A})
            /\ NullAsZero(o.total_arr) = SumOfArr(A)
            /\ NullAsZero(o.total_events_28d) = SumOver(A, [r \in A |-> r.events_28d])
            /\ A = {} =>
                 /\ o.active_customers = 0
                 /\ o.total_arr = Some(0)
                 /\ o.total_events_28d = Some(0)
                 /\ IsNull(o.avg_arr)
                 /\ IsNull(o.avg_events_28d)

C9_Witness ==
  /\ Returned("get_monthly_metrics")
  /\ Len(call.rows) >= 2
  /\ \E o \in OutRows : o.active_customers = 0 /\ o.total_customers = 2
  /\ \E o \in OutRows : o.active_customers > 0

\* C10: per month, get_mau_metrics counts the distinct customers with
\* events_28d > 0, active or not, and the distinct active customers;
\* engagement_rate is their ratio * 100 to two decimals, null when no
\* customer is active, and the month is reported all the same.
C10_MonthlyActiveUsers ==
  Returned("get_mau_metrics") =>
    /\ {o.month_date : o \in OutRows} = {r.month_date : r \in table}
    /\ Len(call.rows) = Cardinality({r.month_date : r \in table})
    /\ \A o \in OutRows :
         LET G == {r \in table : r.month_date = o.month_date}
         IN /\ o.monthly_active_users =
                 Cardinality({r.id : r \in {q \in G : q.events_28d > 0}})
            /\ o.active_customers =
                 Cardinality({r.id : r \in {q \in G : q.is_active}})
            /\ IF o.active_customers = 0 THEN IsNull(o.engagement_rate)
               ELSE /\ ~IsNull(o.engagement_rate)
                    /\ IsRounded(Val(o.engagement_rate),
                                 10000 * o.monthly_active_users,
                                 o.active_customers)

C10_Witness ==
  /\ Returned("get_mau_metrics")
  /\ \E o \in OutRows :
       /\ o.active_customers = 0
       /\ o.monthly_active_users > 0
       /\ IsNull(o.engagement_rate)
  /\ \E o \in OutRows : o.active_customers > o.monthly_active_users

\* The rows of customer c within its first 6 elapsed months since signup
WindowOf(c) ==
  {r \in table : /\ r.id = c
                 /\ ~IsNull(r.account_created_date)
                 /\ MonthsSinceJoining(r) <= 6}

TierOf(r) == Val(PlanRank(r.plan))
LowestTier(c) == CHOOSE x \in {TierOf(r) : r \in WindowOf(c)} :
                   \A r \in WindowOf(c) : x <= TierOf(r)
HighestTier(c) == CHOOSE x \in {TierOf(r) : r \in WindowOf(c)} :
                    \A r \in WindowOf(c) : TierOf(r) <= x

IsFreeTrialToPaid(c) == LowestTier(c) <= 2 /\ HighestTier(c) >= 3
IsPaidTierUpgrade(c) == LowestTier(c) >= 3 /\ HighestTier(c) > LowestTier(c)

\* (a) average events_28d over the window > 100, (b) one of the upgrades
QualifiesAsReferral(c) ==
  /\ WindowOf(c) # {}
  /\ AvgEventsExceeds(WindowOf(c), 100)
  /\ (IsFreeTrialToPaid(c) \/ IsPaidTierUpgrade(c))

\* C11: get_potential_referrals returns exactly the customers whose rows of
\* the first 6 months since signup have an average events_28d above 100 and
\* show one of the two upgrades, each once and with its own upgrade type;
\* 'Free/Trial -> Paid' rows come first, and the average events descend
\* inside each type.
C11_ReferralsExactlyTheQualifying ==
  Returned("get_potential_referrals") =>
    /\ {o.customer_id : o \in OutRows} = {c \in IdsOf(table) : QualifiesAsReferral(c)}
    /\ Cardinality({o.customer_id : o \in OutRows}) = Len(call.rows)
    /\ \A o \in OutRows :
         o.upgrade_type = IF IsFreeTrialToPaid(o.customer_id)
                          THEN "Free/Trial -> Paid" ELSE "Paid Tier Upgrade"
    /\ \A i, j \in 1..Len(call.rows) :
         i < j =>
           /\ ~(call.rows[i].upgrade_type = "Paid Tier Upgrade"
                /\ call.rows[j].upgrade_type = "Free/Trial -> Paid")
           /\ call.rows[i].upgrade_type = call.rows[j].upgrade_type
                => call.rows[i].avg_events >= call.rows[j].avg_events

\* A call returned an upgraded customer
C11_Witness ==
  /\ Returned("get_potential_referrals")
  /\ Len(call.rows) >= 1

\* C12: no customer returned by get_high_opportunity_clients is on a paid
\* plan in the most recent month of the table: whoever was Free/Trial
\* earlier but has a latest-month row with another plan is not returned.
C12_OpportunityOnlyCurrentFreeTrial ==
  Returned("get_high_opportunity_clients") =>
    \A o \in OutRows :
      \A r \in LatestMonthRows :
        r.id = o.customer_id => r.plan \in {"Free", "Trial"}

\* A call returned a customer who is on Free or Trial in the latest month
C12_Witness ==
  /\ Returned("get_high_opportunity_clients")
  /\ \E o \in OutRows : \E r \in LatestMonthRows :
       r.id = o.customer_id /\ r.plan \in {"Free", "Trial"}

\* C13: get_high_opportunity_clients returns at most 15 rows, no customer
\* twice, each with an average above 500 (so a rounded average of at
\* least 500), in descending order of the average.
C13_OpportunityTopDistinct ==
  Returned("get_high_opportunity_clients") =>
    /\ Len(call.rows) <= 15
    /\ Cardinality({o.customer_id : o \in OutRows}) = Len(call.rows)
    /\ \A o \in OutRows : o.avg_events_28d >= 500
    /\ \A i, j \in 1..Len(call.rows) :
         i < j => call.rows[i].avg_events_28d >= call.rows[j].avg_events_28d

\* A call returned a customer who had Free and Trial months in the window
C13_Witness ==
  /\ Returned("get_high_opportunity_clients")
  /\ \E o \in OutRows :
       {"Free", "Trial"} \subseteq {r.plan : r \in RowsOfCustomer(o.customer_id)}

\* The customers who signed up in month m, and those of them with a first
\* payment recorded in any of their rows
SignedUpIn(m) ==
  {r.id : r \in {q \in table : /\ ~IsNull(q.account_created_date)
                               /\ Val(q.account_created_date)[1] = m}}
EverPaid(c) == \E r \in RowsOfCustomer(c) : ~IsNull(r.first_paid_date)

\* C14: get_new_customers has one row per signup month (the calendar month
\* of account_created_date); new_customers is the number of distinct
\* customers who signed up in it and new_paying_customers the number of
\* those who ever converted to paid, whichever of a customer's rows is
\* inspected; new_paying_customers <= new_customers, and the
\* new_customers sum to the number of customers with a signup date.
C14_NewCustomersPerSignupMonth ==
  Returned("get_new_customers") =>
    /\ \A o \in OutRows :
         /\ o.new_customers = Cardinality(SignedUpIn(o.signup_month))
         /\ o.new_paying_customers =
              Cardinality({c \in SignedUpIn(o.signup_month) : EverPaid(c)})
         /\ o.new_paying_customers <= o.new_customers
    /\ Cardinality({o.signup_month : o \in OutRows}) = Len(call.rows)
    /\ SumOver(OutRows, [o \in OutRows |-> o.new_customers])
         = Cardinality({r.id : r \in {q \in table : ~IsNull(q.account_created_date)}})

\* A call reported a customer who converted after the first month
C14_Witness ==
  /\ Returned("get_new_customers")
  /\ \E o \in OutRows : o.new_paying_customers >= 1
  /\ \E c \in IdsOf(table) :
       /\ EverPaid(c)
       /\ \E r \in RowsOfCustomer(c) : IsNull(r.first_paid_date)

\* The indexes of the trailing window of i, and the mean of the window
\* as the pair <<sum, number of values>>
WindowAt(i) == {j \in 1..i : j >= i - 2}
NoNullAt(I) == \A j \in I : ~IsNull(call.rows[j].total_arr)
MeanAt(i) ==
  <<SumOver(WindowAt(i), [j \in WindowAt(i) |-> Val(call.rows[j].total_arr)]),
    Cardinality(WindowAt(i))>>

\* C15: the 3-month moving average is the trailing mean with
\* min_periods = 1: for a series without null the output at i is the mean
\* of s[max(0, i-2) .. i] and is never null; [10, 20, 30, 40] gives
\* [10, 15, 20, 30].
C15_TrailingMovingAverage ==
  Returned("arr_trend") =>
    /\ NoNullAt(1..Len(call.rows)) =>
         \A i \in 1..Len(call.rows) : call.rows[i].arr_3mo_ma = Some(MeanAt(i))
    /\ [i \in 1..Len(call.rows) |-> call.rows[i].total_arr]
         = <<Some(10), Some(20), Some(30), Some(40)>>
       => [i \in 1..Len(call.rows) |-> call.rows[i].arr_3mo_ma]
            = <<Some(<<10, 1>>), Some(<<30, 2>>), Some(<<60, 3>>), Some(<<90, 3>>)>>

\* The chart of the series [10, 20, 30, 40] was computed
C15_Witness ==
  /\ Returned("arr_trend")
  /\ [i \in 1..Len(call.rows) |-> call.rows[i].total_arr]
       = <<Some(10), Some(20), Some(30), Some(40)>>
  /\ call.rows[4].arr_3mo_ma = Some(<<90, 3>>)

\* The position of a plan in the fixed tier order
TierPosition(plan) ==
  CASE plan = "Free" -> 1 [] plan = "Trial" -> 2 [] plan = "Low" -> 3
    [] plan = "Middle" -> 4 [] plan = "Top" -> 5

ByMonthAndPlanOps ==
  {"get_arr_by_plan", "get_plan_distribution", "get_usage_trends_by_plan"}
ByPlanOps == {"get_usage_by_plan", "get_inactive_rate_current"}

\* C16: get_arr_by_plan, get_plan_distribution and get_usage_trends_by_plan
\* return their rows by ascending month_date and, within a month, by the
\* tier order Free < Trial < Low < Middle < Top, one row per (month, plan);
\* get_usage_by_plan and get_inactive_rate_current return one row per plan
\* in the tier order; every row comes from is_active = true rows.
C16_PlanOrdering ==
  /\ (call.op \in ByMonthAndPlanOps /\ call.status = "ok") =>
       /\ \A i, j \in 1..Len(call.rows) :
            i < j =>
              \/ call.rows[i].month_date < call.rows[j].month_date
              \/ /\ call.rows[i].month_date = call.rows[j].month_date
                 /\ TierPosition(call.rows[i].plan) < TierPosition(call.rows[j].plan)
       /\ \A o \in OutRows :
            \E r \in table : /\ r.is_active
                             /\ r.month_date = o.month_date
                             /\ r.plan = o.plan
  /\ (call.op \in ByPlanOps /\ call.status = "ok") =>
       /\ \A i, j \in 1..Len(call.rows) :
            i < j => TierPosition(call.rows[i].plan) < TierPosition(call.rows[j].plan)
       /\ \A o \in OutRows : \E r \in table : r.is_active /\ r.plan = o.plan
       /\ call.op = "get_inactive_rate_current" =>
            \A o \in OutRows :
              \E r \in LatestMonthRows : r.is_active /\ r.plan = o.plan

\* A breakdown by month and plan returned Trial before Low within a month,
\* over a table that also has an inactive row
C16_Witness ==
  /\ call.op \in ByMonthAndPlanOps
  /\ call.status = "ok"
  /\ \E i \in 1..Len(call.rows) :
       /\ i < Len(call.rows)
       /\ call.rows[i].plan = "Trial"
       /\ call.rows[i + 1].month_date = call.rows[i].month_date
  /\ \E r \in table : ~r.is_active

\* C17: a failure of one operation of a page load prevents no other: when
\* the run of the page script has ended by the failure of one loader, every
\* other loader of the page has returned its frame.
C17_ErrorIsolation ==
  run.status = "crashed" =>
    \A l \in Loaders \ {run.failed} : ~IsNull(run.frames[l])

\* A page load ended by the failure of a loader
C17_Witness ==
  /\ run.status = "crashed"
  /\ run.failed = "usage_by_plan"

\* C18: the latest-month views shown together report on the same month:
\* when a page load has rendered, the frames of get_power_users and
\* get_at_risk_accounts took the same month_date as the latest, also when
\* rows of a new month were appended in between.  Stated for the page
\* loads whose two frames were both computed over a table holding rows.
C18_LatestMonthAgreement ==
  (/\ run.status = "done"
   /\ ~IsNull(Val(run.frames["power_users"]).latest)
   /\ ~IsNull(Val(run.frames["at_risk_accounts"]).latest)) =>
    Val(run.frames["power_users"]).latest = Val(run.frames["at_risk_accounts"]).latest

\* A page was rendered over a table with more than one month
C18_Witness ==
  /\ run.status = "done"
  /\ Cardinality(MonthsOf(table)) >= 2
  /\ Val(run.frames["power_users"]).latest = Val(run.frames["at_risk_accounts"]).latest

\* C19: every customer returned by get_potential_referrals upgraded in
\* time: its window holds two months m1 < m2 with a strictly higher tier
\* in m2 than in m1; a customer whose plan only went down is not returned.
C19_ReferralsUpgradedInTime ==
  Returned("get_potential_referrals") =>
    \A o \in OutRows :
      \E r1, r2 \in WindowOf(o.customer_id) :
        r1.month_date < r2.month_date /\ TierOf(r1) < TierOf(r2)

\* A call returned a customer whose tier rose from one month to a later one
C19_Witness ==
  /\ Returned("get_potential_referrals")
  /\ \E o \in OutRows :
       \E r1, r2 \in WindowOf(o.customer_id) :
         r1.month_date < r2.month_date /\ TierOf(r1) < TierOf(r2)

\* The plan of the highest and of the lowest tier among rows
HighestPlan(R) == CHOOSE p \in {r.plan : r \in R} :
                    \A r \in R : TierPosition(r.plan) <= TierPosition(p)
LowestPlan(R) == CHOOSE p \in {r.plan : r \in R} :
                   \A r \in R : TierPosition(p) <= TierPosition(r.plan)

\* C20: plan names follow the tier order Free < Trial < Low < Middle < Top:
\* in every row of get_potential_referrals ending_plan_name is the plan of
\* the highest tier of the window and starting_plan_name the plan of the
\* lowest (not null, also for a 'Paid Tier Upgrade'); the plan reported by
\* get_new_customers_of_note is the highest tier among the customer's
\* active rows, not the alphabetically greatest name.
C20_PlanNamesFollowTierOrder ==
  /\ Returned("get_potential_referrals") =>
       \A o \in OutRows :
         /\ o.ending_plan_name = HighestPlan(WindowOf(o.customer_id))
         /\ o.starting_plan_name = LowestPlan(WindowOf(o.customer_id))
  /\ Returned("get_new_customers_of_note") =>
       \A o \in OutRows :
         o.plan = HighestPlan({r \in RowsOfCustomer(o.customer_id) : r.is_active})

\* A call returned an upgrade from Free to Low with both names
C20_Witness ==
  /\ Returned("get_potential_referrals")
  /\ \E o \in OutRows : o.starting_plan_name = "Free" /\ o.ending_plan_name = "Low"

\* The monthly series of the table the snapshot was taken from
MonthlySeries == (CHOOSE res \in get_monthly_metrics(table) : TRUE).rows

\* C21: on every non-empty table, active_customers and total_arr of
\* get_latest_snapshot equal those of the last row of get_monthly_metrics,
\* and prev_active_customers and prev_arr those of the second-to-last row
\* when the table has a second month, also for a month without active
\* rows.
C21_SnapshotAgreesWithMonthlyMetrics ==
  (Returned("get_latest_snapshot") /\ table # {}) =>
    LET n == Len(MonthlySeries)
        snapshot == call.rows[1]
    IN /\ snapshot.active_customers = MonthlySeries[n].active_customers
       /\ snapshot.total_arr = MonthlySeries[n].total_arr
       /\ n >= 2 =>
            /\ snapshot.prev_active_customers = MonthlySeries[n - 1].active_customers
            /\ snapshot.prev_arr = MonthlySeries[n - 1].total_arr

\* A snapshot over two months with paying customers agreed with the series
C21_Witness ==
  /\ Returned("get_latest_snapshot")
  /\ Len(MonthlySeries) >= 2
  /\ ~IsNull(call.rows[1].prev_arr)
  /\ call.rows[1].prev_arr = MonthlySeries[Len(MonthlySeries) - 1].total_arr
  /\ ~IsNull(call.rows[1].total_arr)
  /\ call.rows[1].total_arr = MonthlySeries[Len(MonthlySeries)].total_arr

=============================================================================
